---- MODULE Spec2Model ----
(***************************************************************************)
(* MPIN validator (MPIN Validation/mpin_validator.py).                     *)
(*                                                                         *)
(* A PIN is a Python str, modelled as a sequence of characters; a          *)
(* character is named by a string.  A date is anything with year, month    *)
(* and day attributes (the code validates it itself in _is_valid_date),    *)
(* modelled as a record; an Optional[date] is <<>> (None) or <<d>>.        *)
(***************************************************************************)
EXTENDS Integers, Sequences, FiniteSets

(***************************************************************************)
(* Characters.  str.isdigit() is true of more than '0'..'9':               *)
(*   "ar0".."ar9"  ARABIC-INDIC DIGIT ZERO..NINE (U+0660..U+0669): isdigit *)
(*                 and isdecimal; int() accepts them                       *)
(*   "sup2"        SUPERSCRIPT TWO (U+00B2): isdigit but not isdecimal;    *)
(*                 int() raises ValueError                                 *)
(*   "a", "-"      not digits                                              *)
(***************************************************************************)
AsciiDigits == {"0", "1", "2", "3", "4", "5", "6", "7", "8", "9"}

ArabicDigits == {"ar0", "ar1", "ar2", "ar3", "ar4", "ar5", "ar6", "ar7", "ar8", "ar9"}

SuperscriptDigits == {"sup2"}

AsciiOf == [n \in 0..9 |-> CASE n = 0 -> "0" [] n = 1 -> "1" [] n = 2 -> "2"
                             [] n = 3 -> "3" [] n = 4 -> "4" [] n = 5 -> "5"
                             [] n = 6 -> "6" [] n = 7 -> "7" [] n = 8 -> "8"
                             [] n = 9 -> "9"]

\* str.isdigit() of one character
char_isdigit(c) == c \in AsciiDigits \cup ArabicDigits \cup SuperscriptDigits

\* str.isdigit(): non-empty and every character is a digit character
str_isdigit(s) == Len(s) > 0 /\ \A i \in 1..Len(s) : char_isdigit(s[i])

\* int(c) raises ValueError unless c is a decimal digit character
int_raises(c) == c \notin AsciiDigits \cup ArabicDigits

\* int(c) of one decimal digit character
int_of(c) ==
    IF c \in AsciiDigits
    THEN CHOOSE n \in 0..9 : AsciiOf[n] = c
    ELSE CASE c = "ar0" -> 0 [] c = "ar1" -> 1 [] c = "ar2" -> 2 [] c = "ar3" -> 3
           [] c = "ar4" -> 4 [] c = "ar5" -> 5 [] c = "ar6" -> 6 [] c = "ar7" -> 7
           [] c = "ar8" -> 8 [] c = "ar9" -> 9

REASON_COMMONLY_USED == "COMMONLY_USED"

REASON_DOB_SELF == "DEMOGRAPHIC_DOB_SELF"

REASON_DOB_SPOUSE == "DEMOGRAPHIC_DOB_SPOUSE"

REASON_ANNIVERSARY == "DEMOGRAPHIC_ANNIVERSARY"

(***************************************************************************)
(* Structural detectors                                                    *)
(***************************************************************************)

\* is_sequence raises ValueError from  [int(d) for d in pin]
is_sequence_raises(pin) ==
    Len(pin) >= 2 /\ \E i \in 1..Len(pin) : int_raises(pin[i])

\* the step between the first two digits, normalised to -4..5
sequence_step(digits) ==
    LET step == (digits[2] - digits[1]) % 10
    IN  IF step > 5 THEN step - 10 ELSE step

is_sequence(pin) ==
    IF Len(pin) < 2 THEN FALSE
    ELSE LET digits == [i \in 1..Len(pin) |-> int_of(pin[i])]
             step == sequence_step(digits)
         IN  \A i \in 2..(Len(digits) - 1) :
                 digits[i + 1] = (digits[i] + step) % 10

\* pattern * k  (str repetition)
str_times(pattern, k) ==
    [i \in 1..(Len(pattern) * k) |-> pattern[((i - 1) % Len(pattern)) + 1]]

is_repetition(pin) ==
    LET pin_length == Len(pin)
    IN  IF pin_length < 2 THEN FALSE
        ELSE \/ Cardinality({pin[i] : i \in 1..pin_length}) = 1
             \/ \E pattern_length \in 1..(pin_length \div 2) :
                    /\ pin_length % pattern_length = 0
                    /\ str_times(SubSeq(pin, 1, pattern_length),
                                 pin_length \div pattern_length) = pin

\* pin[::-1]
str_reverse(s) == [i \in 1..Len(s) |-> s[Len(s) + 1 - i]]

is_palindrome(pin) == pin = str_reverse(pin)

(***************************************************************************)
(* Keypad geometry                                                         *)
(***************************************************************************)
KEYPAD_COORDS ==
    [c \in AsciiDigits |->
        CASE c = "1" -> <<0, 0>> [] c = "2" -> <<1, 0>> [] c = "3" -> <<2, 0>>
          [] c = "4" -> <<0, 1>> [] c = "5" -> <<1, 1>> [] c = "6" -> <<2, 1>>
          [] c = "7" -> <<0, 2>> [] c = "8" -> <<1, 2>> [] c = "9" -> <<2, 2>>
          [] c = "0" -> <<1, 3>>]

_is_collinear(p1, p2, p3) ==
    (p2[2] - p1[2]) * (p3[1] - p2[1]) = (p3[2] - p2[2]) * (p2[1] - p1[1])

\* the straight-line check: every consecutive triple is collinear
is_line(coords) ==
    /\ Len(coords) >= 3
    /\ \A i \in 1..(Len(coords) - 2) :
           _is_collinear(coords[i], coords[i + 1], coords[i + 2])

\* the dot product of the segments into and out of the joint at coords[i]
joint_dot(coords, i) ==
    LET dx1 == coords[i][1] - coords[i - 1][1]
        dy1 == coords[i][2] - coords[i - 1][2]
        dx2 == coords[i + 1][1] - coords[i][1]
        dy2 == coords[i + 1][2] - coords[i][2]
    IN  dx1 * dx2 + dy1 * dy2

right_angles(coords) ==
    Cardinality({i \in 2..3 : joint_dot(coords, i) = 0})

\* the L-shape check: 4 digits, one joint counted as a right angle
is_l_shape(coords) ==
    Len(coords) = 4 /\ right_angles(coords) = 1

CORNER_PATTERNS ==
    { <<"1", "3", "9", "7">>, <<"1", "7", "9", "3">>, <<"3", "1", "7", "9">>,
      <<"3", "9", "7", "1">>, <<"7", "1", "3", "9">>, <<"7", "9", "3", "1">>,
      <<"9", "3", "1", "7">>, <<"9", "7", "1", "3">> }

is_keypad_pattern(pin) ==
    IF Len(pin) < 3 THEN FALSE
    ELSE IF \E i \in 1..Len(pin) : pin[i] \notin DOMAIN KEYPAD_COORDS THEN FALSE
    ELSE LET coords == [i \in 1..Len(pin) |-> KEYPAD_COORDS[pin[i]]]
         IN  \/ is_line(coords)
             \/ is_l_shape(coords)
             \/ pin \in CORNER_PATTERNS

(***************************************************************************)
(* Dates                                                                   *)
(***************************************************************************)
None == <<>>

Some(d) == <<d>>

Date(y, m, d) == [year |-> y, month |-> m, day |-> d]

\* _is_valid_date with the leap year taken as "divisible by 4"
_is_valid_date_leap4(d) ==
    IF d.month < 1 \/ d.month > 12 THEN FALSE
    ELSE IF d.month \in {1, 3, 5, 7, 8, 10, 12} THEN 1 <= d.day /\ d.day <= 31
    ELSE IF d.month \in {4, 6, 9, 11} THEN 1 <= d.day /\ d.day <= 30
    ELSE LET is_leap == d.year % 4 = 0
         IN  1 <= d.day /\ d.day <= (IF is_leap THEN 29 ELSE 28)

_is_valid_date(d) ==
    IF d.month < 1 \/ d.month > 12 THEN FALSE
    ELSE IF d.month \in {1, 3, 5, 7, 8, 10, 12} THEN 1 <= d.day /\ d.day <= 31
    ELSE IF d.month \in {4, 6, 9, 11} THEN 1 <= d.day /\ d.day <= 30
    ELSE LET is_leap == (d.year % 4 = 0 /\ d.year % 100 # 0) \/ (d.year % 400 = 0)
         IN  1 <= d.day /\ d.day <= (IF is_leap THEN 29 ELSE 28)

\* str(n) for n >= 0
RECURSIVE decimal_str(_)
decimal_str(n) ==
    IF n < 10 THEN <<AsciiOf[n]>>
    ELSE Append(decimal_str(n \div 10), AsciiOf[n % 10])

\* f"{n:02d}": the decimal digits (a leading '-' for a negative number),
\* zero-padded after the sign up to a total width of 2
format_02d(n) ==
    IF n < 0 THEN <<"-">> \o decimal_str(0 - n)
    ELSE IF n < 10 THEN <<"0", AsciiOf[n]>>
    ELSE decimal_str(n)

\* the three 6-character orderings added for one two-digit year string
six_digit_pins(dd, mm, yy) == {dd \o mm \o yy, mm \o dd \o yy, yy \o mm \o dd}

\* generate_date_pins without the yy_direct additions: the two-digit year
\* comes from the century windows of the current year only
generate_date_pins_windows_only(d, current_year) ==
    IF ~_is_valid_date(d) THEN {}
    ELSE LET dd == format_02d(d.day)
             mm == format_02d(d.month)
             current_century == (current_year \div 100) * 100
             four == {dd \o mm, mm \o dd}
             bucket(century) ==
                 LET year_in_century == d.year - century
                 IN  IF 0 <= year_in_century /\ year_in_century < 100
                     THEN six_digit_pins(dd, mm, format_02d(year_in_century))
                     ELSE {}
             pins == four \cup bucket(current_century - 100) \cup bucket(current_century)
         IN  {p \in pins : Len(p) \in {4, 6} /\ str_isdigit(p)}

generate_date_pins(d, current_year) ==
    IF ~_is_valid_date(d) THEN {}
    ELSE LET dd == format_02d(d.day)
             mm == format_02d(d.month)
             current_century == (current_year \div 100) * 100
             four == {dd \o mm, mm \o dd}
             bucket(century) ==
                 LET year_in_century == d.year - century
                 IN  IF 0 <= year_in_century /\ year_in_century < 100
                     THEN six_digit_pins(dd, mm, format_02d(year_in_century))
                     ELSE {}
             yy_direct == format_02d(d.year % 100)
             pins == four \cup bucket(current_century - 100) \cup bucket(current_century)
                          \cup six_digit_pins(dd, mm, yy_direct)
         IN  {p \in pins : Len(p) \in {4, 6} /\ str_isdigit(p)}

(***************************************************************************)
(* Main validator                                                          *)
(***************************************************************************)

\* the format gate letting 3-digit PINs through
pin_format_invalid_len3(pin) ==
    Len(pin) = 0 \/ ~str_isdigit(pin) \/ Len(pin) \notin {3, 4, 6}

\* the format gate:  not pin or not pin.isdigit() or len(pin) not in {4, 6}
pin_format_invalid(pin) ==
    Len(pin) = 0 \/ ~str_isdigit(pin) \/ Len(pin) \notin {4, 6}

is_commonly_used(pin) ==
    is_sequence(pin) \/ is_repetition(pin) \/ is_palindrome(pin) \/ is_keypad_pattern(pin)

\* one demographic check:  d and _is_valid_date(d) and pin in generate_date_pins(d)
date_reason(pin, opt, current_year, reason) ==
    IF opt # None /\ _is_valid_date(opt[1]) /\ pin \in generate_date_pins(opt[1], current_year)
    THEN <<reason>> ELSE <<>>

Returned(strength, reasons) == [exc |-> "", strength |-> strength, reasons |-> reasons]

Raised(exc) == [exc |-> exc, strength |-> "", reasons |-> <<>>]

\* check_pin_strength appending COMMONLY_USED once per detector that fires
check_pin_strength_per_detector(pin, dob_self, dob_spouse, anniversary, current_year) ==
    IF pin_format_invalid(pin) THEN Returned("STRONG", <<>>)
    ELSE IF is_sequence_raises(pin) THEN Raised("ValueError")
    ELSE LET reasons ==
                 (IF is_sequence(pin) THEN <<REASON_COMMONLY_USED>> ELSE <<>>)
                 \o (IF is_repetition(pin) THEN <<REASON_COMMONLY_USED>> ELSE <<>>)
                 \o (IF is_palindrome(pin) THEN <<REASON_COMMONLY_USED>> ELSE <<>>)
                 \o (IF is_keypad_pattern(pin) THEN <<REASON_COMMONLY_USED>> ELSE <<>>)
                 \o date_reason(pin, dob_self, current_year, REASON_DOB_SELF)
                 \o date_reason(pin, dob_spouse, current_year, REASON_DOB_SPOUSE)
                 \o date_reason(pin, anniversary, current_year, REASON_ANNIVERSARY)
         IN  Returned(IF reasons # <<>> THEN "WEAK" ELSE "STRONG", reasons)

\* check_pin_strength deciding the strength from the structural check alone
check_pin_strength_strength_early(pin, dob_self, dob_spouse, anniversary, current_year) ==
    IF pin_format_invalid(pin) THEN Returned("STRONG", <<>>)
    ELSE IF is_sequence_raises(pin) THEN Raised("ValueError")
    ELSE LET common == IF is_commonly_used(pin) THEN <<REASON_COMMONLY_USED>> ELSE <<>>
             reasons ==
                 common
                 \o date_reason(pin, dob_self, current_year, REASON_DOB_SELF)
                 \o date_reason(pin, dob_spouse, current_year, REASON_DOB_SPOUSE)
                 \o date_reason(pin, anniversary, current_year, REASON_ANNIVERSARY)
         IN  Returned(IF common # <<>> THEN "WEAK" ELSE "STRONG", reasons)

check_pin_strength(pin, dob_self, dob_spouse, anniversary, current_year) ==
    IF pin_format_invalid(pin) THEN Returned("STRONG", <<>>)
    ELSE IF is_sequence_raises(pin) THEN Raised("ValueError")
    ELSE LET reasons ==
                 (IF is_commonly_used(pin) THEN <<REASON_COMMONLY_USED>> ELSE <<>>)
                 \o date_reason(pin, dob_self, current_year, REASON_DOB_SELF)
                 \o date_reason(pin, dob_spouse, current_year, REASON_DOB_SPOUSE)
                 \o date_reason(pin, anniversary, current_year, REASON_ANNIVERSARY)
         IN  Returned(IF reasons # <<>> THEN "WEAK" ELSE "STRONG", reasons)

(***************************************************************************)
(* Inputs                                                                  *)
(***************************************************************************)

\* the longest PIN of the malformed-input family
MaxPinLen == 6

\* all strings of length n over the characters cs
StrsOfLen(cs, n) == [1..n -> cs]

\* characters of the malformed-input family: a decimal digit, a letter, a
\* digit int() rejects, a digit int() accepts that is not '0'..'9'
FormatChars == {"1", "a", "sup2", "ar1"}

FormatPins == UNION {StrsOfLen(FormatChars, n) : n \in 0..MaxPinLen}

FormatDates == {None, Some(Date(2011, 11, 11))}

\* every 3- and 4-digit PIN, and the 6-digit PINs over four keys
KeypadPins ==
    StrsOfLen(AsciiDigits, 3) \cup StrsOfLen(AsciiDigits, 4)
    \cup StrsOfLen({"1", "2", "4", "5"}, 6)

\* dates of the test suite, and years outside the century windows
SuiteDates ==
    { Date(1990, 3, 5), Date(1998, 1, 2), Date(2004, 1, 2), Date(1999, 2, 28),
      Date(2012, 3, 4), Date(1912, 12, 1), Date(2011, 11, 11),
      Date(1850, 7, 4), Date(2150, 7, 4) }

GridDays == {0, 1, 28, 29, 30, 31, 32}

GridYears == {1900, 1999, 2000, 2004}

\* every month (and 0, 13) under each leap rule
GridDates == {Date(y, m, d) : y \in GridYears, m \in 0..13, d \in GridDays}

OtherDates == {None, Some(Date(2011, 11, 11))}

\* dates combined freely over the three roles
CubeDates == {Date(1990, 3, 5), Date(2004, 1, 2), Date(2011, 11, 11), Date(2012, 3, 4)}

\* the strings a date would give if it were formatted without validation
RawDatePins(d) ==
    LET dd == format_02d(d.day)
        mm == format_02d(d.month)
        yy == format_02d(d.year % 100)
        cc == format_02d((d.year \div 100) % 100)
    IN  {dd \o mm, mm \o dd, dd \o mm \o yy, mm \o dd \o yy, yy \o mm \o dd,
         dd \o mm \o cc, yy \o dd \o mm}

SuitePins ==
    { <<"1", "2", "3", "4">>, <<"2", "9", "0", "2">>, <<"1", "2", "1", "2">>,
      <<"1", "1", "1", "1">>, <<"1", "1", "1", "1", "1", "1">>,
      <<"8", "0", "6", "8">>, <<"0", "5", "0", "3">>, <<"0", "5", "0", "3", "9", "0">> }

CurrentYears == {1999, 2026, 2100}

Roles == {"self", "spouse", "anniversary"}

(***************************************************************************)
(* State                                                                   *)
(***************************************************************************)
VARIABLES pin, dob_self, dob_spouse, anniversary, today_year, pc, result

vars == <<pin, dob_self, dob_spouse, anniversary, today_year, pc, result>>

NoResult == [exc |-> "", strength |-> "", reasons |-> <<>>]

\* malformed and odd PINs, without dates or with the same date for every role
InitFormat ==
    /\ pin \in FormatPins
    /\ dob_self \in FormatDates
    /\ dob_spouse = dob_self
    /\ anniversary = dob_self

\* digit-only PINs with no dates
InitKeypad ==
    /\ pin \in KeypadPins
    /\ dob_self = None
    /\ dob_spouse = None
    /\ anniversary = None

\* one role with a date of the grid or of the test suite, PINs derived from
\* that date
InitGrid ==
    \E r \in Roles, d \in GridDates \cup SuiteDates, o1 \in OtherDates, o2 \in OtherDates :
        /\ pin \in RawDatePins(d) \cup SuitePins
        /\ dob_self = IF r = "self" THEN Some(d) ELSE o1
        /\ dob_spouse = IF r = "spouse" THEN Some(d) ELSE IF r = "self" THEN o1 ELSE o2
        /\ anniversary = IF r = "anniversary" THEN Some(d) ELSE o2

\* every combination of a few dates over the three roles
InitCube ==
    /\ pin \in SuitePins \cup UNION {RawDatePins(d) : d \in CubeDates}
    /\ dob_self \in {None} \cup {Some(d) : d \in CubeDates}
    /\ dob_spouse \in {None} \cup {Some(d) : d \in CubeDates}
    /\ anniversary \in {None} \cup {Some(d) : d \in CubeDates}

Init ==
    /\ (InitFormat \/ InitKeypad \/ InitGrid \/ InitCube)
    /\ today_year \in CurrentYears
    /\ pc = "ready"
    /\ result = NoResult

\* the calendar year changes before the call is made
Tick ==
    /\ pc = "ready"
    /\ \E y \in CurrentYears : y > today_year /\ today_year' = y
    /\ UNCHANGED <<pin, dob_self, dob_spouse, anniversary, pc, result>>

\* check_pin_strength(pin, dob_self, dob_spouse, anniversary)
Call ==
    /\ pc = "ready"
    /\ result' = check_pin_strength(pin, dob_self, dob_spouse, anniversary, today_year)
    /\ pc' = IF result'.exc = "" THEN "returned" ELSE "raised"
    /\ UNCHANGED <<pin, dob_self, dob_spouse, anniversary, today_year>>

Next == Tick \/ Call

Spec == Init /\ [][Next]_vars

(***************************************************************************)
(* Properties                                                              *)
(***************************************************************************)

\* every character is one of '0'..'9'
AsciiPin(p) == \A i \in 1..Len(p) : p[i] \in AsciiDigits

\* a PIN of the data model: 4 or 6 decimal digits '0'..'9'
WellFormedPin(p) == Len(p) \in {4, 6} /\ AsciiPin(p)

NoDates == dob_self = None /\ dob_spouse = None /\ anniversary = None

DateOfRole(r) ==
    CASE r = "self" -> dob_self [] r = "spouse" -> dob_spouse
      [] r = "anniversary" -> anniversary

ReasonOfRole(r) ==
    CASE r = "self" -> REASON_DOB_SELF [] r = "spouse" -> REASON_DOB_SPOUSE
      [] r = "anniversary" -> REASON_ANNIVERSARY

Reasons == {result.reasons[i] : i \in 1..Len(result.reasons)}

ReasonOrder ==
    <<REASON_COMMONLY_USED, REASON_DOB_SELF, REASON_DOB_SPOUSE, REASON_ANNIVERSARY>>

\* the Gregorian calendar: month lengths and the 4/100/400 leap rule
DaysInMonth(y, m) ==
    CASE m \in {1, 3, 5, 7, 8, 10, 12} -> 31
      [] m \in {4, 6, 9, 11} -> 30
      [] m = 2 -> IF y % 400 = 0 THEN 29
                  ELSE IF y % 100 = 0 THEN 28
                  ELSE IF y % 4 = 0 THEN 29 ELSE 28

RealGregorian(d) ==
    d.month \in 1..12 /\ d.day >= 1 /\ d.day <= DaysInMonth(d.year, d.month)

\* two decimal digits of a number 0..99
TwoDigits(n) == <<AsciiOf[n \div 10], AsciiOf[n % 10]>>

\* dd+mm, mm+dd, dd+mm+yy, mm+dd+yy, yy+mm+dd with yy = year mod 100
FiveForms(d) ==
    LET dd == TwoDigits(d.day)
        mm == TwoDigits(d.month)
        yy == TwoDigits(d.year % 100)
    IN  {dd \o mm, mm \o dd, dd \o mm \o yy, mm \o dd \o yy, yy \o mm \o dd}

CoordsOf(p) == [i \in 1..Len(p) |-> KEYPAD_COORDS[p[i]]]

\* all the points lie on one straight line
OnCommonLine(coords) ==
    \A i, j, k \in 1..Len(coords) :
        (coords[j][1] - coords[i][1]) * (coords[k][2] - coords[i][2])
            = (coords[j][2] - coords[i][2]) * (coords[k][1] - coords[i][1])

\* the path turns by 90 degrees at coords[i]: two segments of non-zero
\* length, perpendicular to each other
TurnsAt(coords, i) ==
    /\ coords[i - 1] # coords[i]
    /\ coords[i] # coords[i + 1]
    /\ joint_dot(coords, i) = 0

\* C1: every call returns normally, with a strength of WEAK or STRONG and a
\* list of reasons; no call raises.
C1_Totality ==
    pc # "ready" =>
        /\ pc = "returned"
        /\ result.exc = ""
        /\ result.strength \in {"WEAK", "STRONG"}
        /\ Reasons \subseteq {ReasonOrder[i] : i \in 1..4}

\* C2: a call that returns for a PIN that is empty, not of length 4 or 6, or
\* holds a character outside '0'..'9' returns STRONG with no reasons, whatever
\* the dates.
C2_FormatGate ==
    (pc = "returned" /\ ~WellFormedPin(pin)) => result = Returned("STRONG", <<>>)

C4_MultiReason ==
    ( /\ pc # "ready"
      /\ pin = <<"1", "2", "3", "4">>
      /\ dob_self = Some(Date(2012, 3, 4))
      /\ dob_spouse = None
      /\ anniversary = None )
    => /\ result.strength = "WEAK"
       /\ \E i, j \in 1..Len(result.reasons) :
              /\ i < j
              /\ result.reasons[i] = REASON_COMMONLY_USED
              /\ result.reasons[j] = REASON_DOB_SELF

\* C5: a date that is not a real Gregorian date never adds its role's reason,
\* and the outcome is that of the same call without the date; "2902" with
\* dob_self = 1999-02-29 alone is STRONG with no reasons.
C5_InvalidDateInert ==
    pc # "ready" =>
        /\ \A r \in Roles :
               (DateOfRole(r) # None /\ ~RealGregorian(DateOfRole(r)[1]))
                   => /\ ReasonOfRole(r) \notin Reasons
                      /\ result = check_pin_strength(
                                      pin,
                                      IF r = "self" THEN None ELSE dob_self,
                                      IF r = "spouse" THEN None ELSE dob_spouse,
                                      IF r = "anniversary" THEN None ELSE anniversary,
                                      today_year)
        /\ ( /\ pin = <<"2", "9", "0", "2">>
             /\ dob_self = Some(Date(1999, 2, 29))
             /\ dob_spouse = None
             /\ anniversary = None )
           => result = Returned("STRONG", <<>>)

\* 29 February 1900 as the spouse's date, its ddmm form as the PIN, and a
\* real date matching for another role
C5_Witness ==
    /\ pc = "returned"
    /\ pin = <<"2", "9", "0", "2">>
    /\ dob_spouse = Some(Date(1900, 2, 29))
    /\ \E r \in Roles : DateOfRole(r) # None /\ RealGregorian(DateOfRole(r)[1])
    /\ result = Returned("STRONG", <<>>)

\* C6: the returned reasons are the fixed sequence COMMONLY_USED, DOB_SELF,
\* DOB_SPOUSE, ANNIVERSARY with some entries left out: only these four, each
\* at most once, in that order.
C6_ReasonOrder ==
    pc = "returned" =>
        LET kept(x) == x \in Reasons
        IN  result.reasons = SelectSeq(ReasonOrder, kept)

\* all four reasons at once, for a PIN on which several detectors fire
C6_Witness ==
    /\ pc = "returned"
    /\ Len(result.reasons) = 4
    /\ is_sequence(pin) /\ is_repetition(pin) /\ is_palindrome(pin) /\ is_keypad_pattern(pin)

\* C7: the returned strength is WEAK exactly when the reasons are non-empty
\* and STRONG exactly when they are empty.
C7_Coupling ==
    pc = "returned" =>
        /\ result.strength = "WEAK" <=> result.reasons # <<>>
        /\ result.strength = "STRONG" <=> result.reasons = <<>>

\* WEAK for a date alone, on a PIN no structural detector flags
C7_Witness ==
    /\ pc = "returned"
    /\ result.strength = "WEAK"
    /\ result.reasons = <<REASON_DOB_SPOUSE, REASON_ANNIVERSARY>>
    /\ ~is_commonly_used(pin)

\* three different keys lying on one straight line of the keypad
ThreeKeyLine(p) ==
    /\ Len(p) = 3
    /\ AsciiPin(p)
    /\ Cardinality({p[i] : i \in 1..3}) = 3
    /\ OnCommonLine(CoordsOf(p))

C9_LShapeOneTurn ==
    (pc # "ready" /\ Len(pin) = 4 /\ AsciiPin(pin))
        => (is_l_shape(CoordsOf(pin))
                <=> Cardinality({i \in 2..3 : TurnsAt(CoordsOf(pin), i)}) = 1)

\* C10: a 4- or 6-digit PIN passes the straight-line check only if all its
\* keypad coordinates lie on one straight line.
C10_LineWholePath ==
    (pc # "ready" /\ WellFormedPin(pin))
        => (is_line(CoordsOf(pin)) => OnCommonLine(CoordsOf(pin)))

====
